---- MODULE Spec2Model ----
(***************************************************************************)
(* Source-correlation queries of the ssa package (source.go):              *)
(* EnclosingFunction, HasEnclosingFunction, ValueForExpr, FuncValue,       *)
(* ConstValue and VarValue, run against a package whose IR is created and  *)
(* built step by step.                                                     *)
(***************************************************************************)
EXTENDS Integers, Sequences, FiniteSets, TLC

\* Longest run of nested function literals on an ancestor path.
MaxLits == 2
\* Number of Const instances NewConst may allocate in one behaviour.
MaxAlloc == 2
\* Deepest nesting of parentheses around a queried expression.
MaxParen == 2

VARIABLES
    packages,   \* prog.packages: package -> [Members, values]
    AnonFuncs,  \* Function.AnonFuncs, per function, in append order
    Blocks,     \* Function.Blocks, per function: sequence of instruction sequences
    Params,     \* Function.Params, per function
    debug,      \* per function: was it built with debug information
    methods,    \* functions Program.Method has materialised so far
    heap,       \* number of Const instances allocated by NewConst
    last        \* the query in progress: its operation, arguments and result

vars == <<packages, AnonFuncs, Blocks, Params, debug, methods, heap, last>>

irState == <<packages, AnonFuncs, Blocks, Params, debug, methods>>

(***************************************************************************)
(* Syntax: ast.Node.  One record shape for every node kind.                *)
(***************************************************************************)
Node(kind, tok, recv, name, pos) ==
    [kind |-> kind, Tok |-> tok, Recv |-> recv, Name |-> name, Pos |-> pos]

File == Node("File", "", FALSE, "", 0)

GenDecl(tok) == Node("GenDecl", tok, FALSE, "", 0)

\* Pos is decl.Name.NamePos; Recv is decl.Recv # nil.
FuncDecl(recv, name, pos) == Node("FuncDecl", "", recv, name, pos)

\* Pos is lit.Type.Func.
FuncLit(pos) == Node("FuncLit", "", FALSE, "", pos)

Ident(pos) == Node("Ident", "", FALSE, "", pos)

BlockStmt == Node("BlockStmt", "", FALSE, "", 0)

\* ast.Expr for ValueForExpr: `paren` ParenExpr nodes wrapped around `base`.
Expr(paren, base) == [paren |-> paren, base |-> base]

NoExpr == Expr(0, "")

(***************************************************************************)
(* IR values.  One record shape: kind, name, address (0 for the values the *)
(* builder creates once, >= 1 for NewConst allocations), and for a Const   *)
(* its literal and type.                                                   *)
(***************************************************************************)
Val(kind, name, addr, val, typ) ==
    [kind |-> kind, name |-> name, addr |-> addr, val |-> val, typ |-> typ]

Nil == Val("nil", "", 0, "", "")

\* A run-time panic of the query (failed type assertion, nil dereference).
Fault == Val("fault", "", 0, "", "")

FunctionV(name) == Val("Function", name, 0, "", "")

GlobalV(name) == Val("Global", name, 0, "", "")

BuiltinV(name) == Val("Builtin", name, 0, "", "")

ParameterV(name) == Val("Parameter", name, 0, "", "")

InstrV(name) == Val("Instr", name, 0, "", "")

BoolV(b) == Val("bool", IF b THEN "true" ELSE "false", 0, "", "")

(***************************************************************************)
(* The semantic model (go/types): objects, their package, position, and    *)
(* for constants their value and type.                                     *)
(***************************************************************************)
FuncObjs == {"len", "f", "T.init", "I.m"}

VarObjs == {"g", "x"}

ConstObjs == {"true", "c", "q", "k"}

\* obj.Pkg(): "" is nil (universe).
ObjPkg(obj) ==
    CASE obj \in {"len", "true"} -> ""
      [] obj = "q" -> "Q"
      [] OTHER -> "P"

\* obj.Pos()
ObjPos(obj) ==
    CASE obj = "f" -> 12
      [] obj = "T.init" -> 13
      [] obj = "x" -> 14
      [] obj = "g" -> 15
      [] obj = "c" -> 16
      [] obj = "I.m" -> 17
      [] obj = "k" -> 34
      [] obj = "q" -> 40
      [] OTHER -> 0

\* obj.Parent() == types.Universe
IsUniverse(obj) == obj \in {"len", "true"}

\* obj.Val()
ObjVal(obj) ==
    CASE obj = "true" -> "true"
      [] obj = "c" -> "1"
      [] obj = "q" -> "2"
      [] OTHER -> "3"

\* obj.Type()
ObjType(obj) ==
    CASE obj = "true" -> "untyped bool"
      [] obj = "c" -> "int"
      [] obj = "q" -> "string"
      [] OTHER -> "untyped int"

\* types.NewPointer(T).MethodSet(): the method objects, in At(i) order.
MethodSet(typ) == IF typ = "T" THEN <<"T.init">> ELSE <<>>

(***************************************************************************)
(* The IR universe: the functions the builder may create.                  *)
(***************************************************************************)
Fn == {"init", "f", "T.init", "f$1", "f$2"}

\* Function.Pos(): the declaring identifier, or the func keyword of a literal.
FnPos(fn) ==
    CASE fn = "f" -> 12
      [] fn = "T.init" -> 13
      [] fn = "f$1" -> 21
      [] fn = "f$2" -> 22
      [] OTHER -> 0

\* Package-level objects of package P, and the value the builder creates for each.
PkgObjs == {"f", "T.init", "g", "c"}

ValueOfObj(obj) ==
    CASE obj \in {"f", "T.init"} -> FunctionV(obj)
      [] obj = "g" -> GlobalV(obj)
      [] OTHER -> Val("Const", obj, 0, ObjVal(obj), ObjType(obj))

\* Kind of a package member: *Function, *Type, *Global or *NamedConst.
MemberKind(m) ==
    CASE m = "f" -> "Function"
      [] m = "T" -> "Type"
      [] m = "g" -> "Global"
      [] OTHER -> "NamedConst"

AllMembers == {"f", "T", "g", "c"}

\* Instructions: a DebugRef carries Expr, Pos and X; anything else is "Other".
Instr(kind, e, pos, x) == [kind |-> kind, Expr |-> e, Pos |-> pos, X |-> x]

DebugRef(e, pos, x) == Instr("DebugRef", e, pos, InstrV(x))

OtherInstr == Instr("Other", NoExpr, 0, Nil)

\* The body the builder produces for each function.
BodyBlocks(fn) ==
    CASE fn = "f" ->
           << <<OtherInstr>>,
              <<OtherInstr, DebugRef(Expr(0, "x"), 32, "t0")>> >>
      [] fn = "f$1" ->
           << <<DebugRef(Expr(0, "y"), 31, "t1")>> >>
      [] fn = "f$2" ->
           << <<OtherInstr>>, <<DebugRef(Expr(0, "y"), 31, "t2")>> >>
      [] OTHER -> << <<OtherInstr>> >>

BodyParams(fn) == IF fn = "f" THEN <<"x">> ELSE <<>>

\* Functions in whose AnonFuncs the builder may place each literal's function.
AnonParents(anon) == IF anon = "f$1" THEN {"f", "init"} ELSE {"f", "f$1"}

\* prog.builtins
builtins == {"len"}

(***************************************************************************)
(* Query inputs.                                                           *)
(***************************************************************************)
Lits == {FuncLit(21), FuncLit(22)}

LitSeqs == UNION {[1..n -> Lits] : n \in 0..MaxLits}

Parents ==
    {GenDecl("var"), GenDecl("type"), FuncDecl(FALSE, "init", 11),
     FuncDecl(FALSE, "f", 12), FuncDecl(TRUE, "init", 13)}

\* Ancestor paths: too short ones, a declaration directly under the file,
\* the identifier at 31 under every kind of declaration, the defining
\* identifier of f's parameter x (at 14) under f's declaration, and the
\* identifier at 31 under f's declaration with block statements in between.
Paths ==
    {<<>>, <<Ident(31)>>}
    \cup {<<p, File>> : p \in Parents}
    \cup {<<Ident(31)>> \o m \o <<p, File>> : m \in LitSeqs, p \in Parents}
    \cup {<<Ident(14)>> \o m \o <<FuncDecl(FALSE, "f", 12), File>> : m \in LitSeqs}
    \cup {<<Ident(31), BlockStmt>> \o m \o <<BlockStmt, FuncDecl(FALSE, "f", 12), File>> :
             m \in LitSeqs}

Exprs == {Expr(p, b) : p \in 0..MaxParen, b \in {"x", "y"}}

\* Orders in which a range over a map may visit the keys S.
Orders(S) == {s \in [1..Cardinality(S) -> S] : \A m \in S : \E i \in DOMAIN s : s[i] = m}

(***************************************************************************)
(* The queries, as functions of the IR state.  `order` is the order in     *)
(* which the range over the map pkg.Members visits the members.            *)
(***************************************************************************)
\* pkg.values[obj]: a missing key reads as nil.
valuesAt(pkg, obj) ==
    IF obj \in DOMAIN packages[pkg].values THEN packages[pkg].values[obj] ELSE Nil

\* v.(*Function), v.(*Const), v.(*Global): panics unless v has that dynamic type.
typeAssert(v, kind) == IF v.kind = kind THEN v ELSE Fault

\* The loop over the method set of *T: the first method declared at pos.
RECURSIVE scanMethodSet(_, _, _, _)
scanMethodSet(pkg, mset, i, pos) ==
    IF i > Len(mset) THEN Nil
    ELSE IF ObjPos(mset[i]) = pos
         THEN typeAssert(valuesAt(pkg, mset[i]), "Function")
         ELSE scanMethodSet(pkg, mset, i + 1, pos)

RECURSIVE findNamedFunc(_, _, _)
findNamedFunc(pkg, pos, order) ==
    IF order = <<>> THEN Nil
    ELSE LET mem == Head(order)
             hit == CASE MemberKind(mem) = "Function" ->
                           IF FnPos(mem) = pos THEN FunctionV(mem) ELSE Nil
                      [] MemberKind(mem) = "Type" ->
                           scanMethodSet(pkg, MethodSet(mem), 1, pos)
                      [] OTHER -> Nil
         IN  IF hit # Nil THEN hit ELSE findNamedFunc(pkg, pos, Tail(order))

\* pkg.init: created with the package, never nil.
pkgInit(pkg) == FunctionV("init")

\* Variant: the test for the explicit init function forgets the receiver.
findEnclosingPackageLevelFunctionAnyInit(pkg, path, order) ==
    LET n == Len(path) IN
    IF n >= 2
    THEN LET decl == path[n - 1] IN
         CASE decl.kind = "GenDecl" ->
                IF decl.Tok = "var" /\ n >= 3 THEN pkgInit(pkg) ELSE Nil
           [] decl.kind = "FuncDecl" ->
                IF decl.Name = "init"
                THEN pkgInit(pkg)
                ELSE findNamedFunc(pkg, decl.Pos, order)
           [] OTHER -> Nil
    ELSE Nil

findEnclosingPackageLevelFunction(pkg, path, order) ==
    LET n == Len(path) IN
    IF n >= 2
    THEN LET decl == path[n - 1] IN
         CASE decl.kind = "GenDecl" ->
                IF decl.Tok = "var" /\ n >= 3 THEN pkgInit(pkg) ELSE Nil
           [] decl.kind = "FuncDecl" ->
                IF ~decl.Recv /\ decl.Name = "init"
                THEN pkgInit(pkg)
                ELSE findNamedFunc(pkg, decl.Pos, order)
           [] OTHER -> Nil
    ELSE Nil

\* Variant: the most recently appended anon is taken, whatever its Pos.
findAnonLast(anons, pos) ==
    IF anons = <<>> THEN Nil ELSE FunctionV(anons[Len(anons)])

\* The inner loop of EnclosingFunction: the first anon whose Pos is pos.
RECURSIVE findAnon(_, _)
findAnon(anons, pos) ==
    IF anons = <<>> THEN Nil
    ELSE IF FnPos(Head(anons)) = pos
         THEN FunctionV(Head(anons))
         ELSE findAnon(Tail(anons), pos)

\* Variant: a literal without a function leaves the enclosing function as
\* the result instead of nil.
RECURSIVE walkAnonFuncsOuter(_, _, _)
walkAnonFuncsOuter(fn, path, i) ==
    LET n == Len(path) IN
    IF i >= n THEN fn
    ELSE LET node == path[n - i] IN
         IF node.kind = "FuncLit"
         THEN LET anon == findAnon(AnonFuncs[fn.name], node.Pos) IN
              IF anon = Nil THEN fn ELSE walkAnonFuncsOuter(anon, path, i + 1)
         ELSE walkAnonFuncsOuter(fn, path, i + 1)

\* Variant: the walk stops at the first literal it matches.
RECURSIVE walkAnonFuncsFirst(_, _, _)
walkAnonFuncsFirst(fn, path, i) ==
    LET n == Len(path) IN
    IF i >= n THEN fn
    ELSE LET node == path[n - i] IN
         IF node.kind = "FuncLit"
         THEN findAnon(AnonFuncs[fn.name], node.Pos)
         ELSE walkAnonFuncsFirst(fn, path, i + 1)

\* The outer loop of EnclosingFunction from iteration i on: path[n-1-i] in
\* the source's 0-based indexing is path[n-i] here.
RECURSIVE walkAnonFuncs(_, _, _)
walkAnonFuncs(fn, path, i) ==
    LET n == Len(path) IN
    IF i >= n THEN fn
    ELSE LET node == path[n - i] IN
         IF node.kind = "FuncLit"
         THEN LET anon == findAnon(AnonFuncs[fn.name], node.Pos) IN
              IF anon = Nil THEN Nil ELSE walkAnonFuncs(anon, path, i + 1)
         ELSE walkAnonFuncs(fn, path, i + 1)

\* Variant: a path outside every function is searched from pkg.init.
EnclosingFunctionFallback(pkg, path, order) ==
    LET fn == findEnclosingPackageLevelFunction(pkg, path, order) IN
    IF fn = Fault THEN Fault
    ELSE walkAnonFuncs(IF fn = Nil THEN pkgInit(pkg) ELSE fn, path, 0)

EnclosingFunction(pkg, path, order) ==
    LET fn == findEnclosingPackageLevelFunction(pkg, path, order) IN
    IF fn = Fault THEN Fault
    ELSE IF fn = Nil THEN Nil
    ELSE walkAnonFuncs(fn, path, 0)

HasEnclosingFunction(pkg, path, order) ==
    LET fn == findEnclosingPackageLevelFunction(pkg, path, order) IN
    IF fn = Fault THEN Fault ELSE BoolV(fn # Nil)

\* All instructions of a function, block by block.
RECURSIVE flatten(_)
flatten(blocks) ==
    IF blocks = <<>> THEN <<>> ELSE Head(blocks) \o flatten(Tail(blocks))

\* f.debugInfo()
debugInfo(f) == debug[f]

\* unparen: strips the enclosing ParenExpr nodes.
unparen(e) == Expr(0, e.base)

RECURSIVE firstRefByExpr(_, _)
firstRefByExpr(instrs, e) ==
    IF instrs = <<>> THEN Nil
    ELSE IF Head(instrs).kind = "DebugRef" /\ Head(instrs).Expr = e
         THEN Head(instrs).X
         ELSE firstRefByExpr(Tail(instrs), e)

\* Variant: the scan runs whether or not f has debug information.
ValueForExprNoDebugCheck(f, e) ==
    firstRefByExpr(flatten(Blocks[f]), unparen(e))

ValueForExpr(f, e) ==
    IF debugInfo(f) THEN firstRefByExpr(flatten(Blocks[f]), unparen(e)) ELSE Nil

\* Variant: the entry is handed out as a copy, a new instance on each call.
packageLevelValueCopy(obj) ==
    IF ObjPkg(obj) \in DOMAIN packages /\ valuesAt(ObjPkg(obj), obj) # Nil
    THEN [valuesAt(ObjPkg(obj), obj) EXCEPT !.addr = heap + 1]
    ELSE Nil

packageLevelValue(obj) ==
    IF ObjPkg(obj) \in DOMAIN packages THEN valuesAt(ObjPkg(obj), obj) ELSE Nil

\* recvType(obj).MethodSet().Lookup(obj.Pkg(), obj.Name()): the binding of a
\* method object, "" when obj is not a method.
lookupMethod(obj) == IF obj \in {"T.init", "I.m"} THEN obj ELSE ""

\* Methods of interfaces: they have no declared function of their own.
IsInterfaceMethod(meth) == meth = "I.m"

\* Program.Method: the function of a binding.  A declared method resolves
\* to its entry in the value table; the wrapper of an interface method is
\* made on demand and remembered by the program.  Result and the program's
\* method table after the call.
Method(meth) ==
    IF meth = ""
    THEN [res |-> Nil, methods |-> methods]
    ELSE IF IsInterfaceMethod(meth)
         THEN [res |-> FunctionV(meth), methods |-> methods \cup {meth}]
         ELSE [res |-> valuesAt(ObjPkg(meth), meth), methods |-> methods]

FuncValue(obj) ==
    IF obj \in builtins
    THEN [res |-> BuiltinV(obj), methods |-> methods]
    ELSE IF packageLevelValue(obj) # Nil
         THEN [res |-> packageLevelValue(obj), methods |-> methods]
         ELSE Method(lookupMethod(obj))

\* NewConst: a new Const instance at the next free address.
NewConst(val, typ) == Val("Const", "", heap + 1, val, typ)

\* Variant: a constant without a package-level value is not synthesized.
ConstValueNoSynth(obj) ==
    IF IsUniverse(obj)
    THEN [res |-> NewConst(ObjVal(obj), ObjType(obj)), heap |-> heap + 1]
    ELSE [res |-> packageLevelValue(obj), heap |-> heap]

\* Result and the number of Const instances allocated after the call.
ConstValue(obj) ==
    IF IsUniverse(obj)
    THEN [res |-> NewConst(ObjVal(obj), ObjType(obj)), heap |-> heap + 1]
    ELSE IF packageLevelValue(obj) # Nil
         THEN [res |-> typeAssert(packageLevelValue(obj), "Const"), heap |-> heap]
         ELSE [res |-> NewConst(ObjVal(obj), ObjType(obj)), heap |-> heap + 1]

RECURSIVE findParam(_, _)
findParam(params, obj) ==
    IF params = <<>> THEN Nil
    ELSE IF Head(params) = obj THEN ParameterV(obj) ELSE findParam(Tail(params), obj)

RECURSIVE firstRefByPos(_, _)
firstRefByPos(instrs, pos) ==
    IF instrs = <<>> THEN Nil
    ELSE IF Head(instrs).kind = "DebugRef" /\ Head(instrs).Pos = pos
         THEN Head(instrs).X
         ELSE firstRefByPos(Tail(instrs), pos)

\* VarValue after the package-level lookup failed, within function fn.
localVarValue(obj, id, fn) ==
    LET param == IF id.Pos = ObjPos(obj) THEN findParam(Params[fn.name], obj) ELSE Nil
    IN  IF param # Nil THEN param ELSE firstRefByPos(flatten(Blocks[fn.name]), id.Pos)

\* Variant: without an enclosing function the search falls back to the
\* declared function f.
VarValueFallback(obj, pkg, ref, order) ==
    IF ref = <<>> \/ ref[1].kind # "Ident" THEN Fault
    ELSE IF packageLevelValue(obj) # Nil
         THEN typeAssert(packageLevelValue(obj), "Global")
         ELSE LET fn == EnclosingFunction(pkg, ref, order) IN
              IF fn = Fault THEN Fault
              ELSE localVarValue(obj, ref[1], IF fn = Nil THEN FunctionV("f") ELSE fn)

VarValue(obj, pkg, ref, order) ==
    IF ref = <<>> \/ ref[1].kind # "Ident" THEN Fault
    ELSE IF packageLevelValue(obj) # Nil
         THEN typeAssert(packageLevelValue(obj), "Global")
         ELSE LET fn == EnclosingFunction(pkg, ref, order) IN
              IF fn = Fault THEN Fault
              ELSE IF fn = Nil THEN Nil
              ELSE localVarValue(obj, ref[1], fn)

(***************************************************************************)
(* The IR builder: creation of the package's members and values, then the  *)
(* build of function bodies.  Everything is added once and never changed.  *)
(***************************************************************************)
Range(s) == {s[i] : i \in DOMAIN s}

Created ==
    /\ packages["P"].Members = AllMembers
    /\ DOMAIN packages["P"].values = PkgObjs

Built(fn) == fn = "init" \/ Blocks[fn] # <<>>

Placed(anon) == \E p \in Fn : anon \in Range(AnonFuncs[p])

\* memberFromObject for a package-level func, var or const: the value table
\* and the member table get their entry together.
CreateMember(obj) ==
    /\ obj \in {"f", "g", "c"}
    /\ obj \notin packages["P"].Members
    /\ packages' = [packages EXCEPT
           !["P"].Members = @ \cup {obj},
           !["P"].values = [o \in DOMAIN @ \cup {obj} |->
                               IF o = obj THEN ValueOfObj(obj) ELSE @[o]]]
    /\ UNCHANGED <<AnonFuncs, Blocks, Params, debug, methods, heap, last>>

\* A declared method gets a value table entry and no member.
CreateMethod(obj) ==
    /\ obj = "T.init"
    /\ obj \notin DOMAIN packages["P"].values
    /\ packages' = [packages EXCEPT
           !["P"].values = [o \in DOMAIN @ \cup {obj} |->
                               IF o = obj THEN ValueOfObj(obj) ELSE @[o]]]
    /\ UNCHANGED <<AnonFuncs, Blocks, Params, debug, methods, heap, last>>

\* A named type gets a member and no value.
CreateType(typ) ==
    /\ typ = "T"
    /\ typ \notin packages["P"].Members
    /\ packages' = [packages EXCEPT !["P"].Members = @ \cup {typ}]
    /\ UNCHANGED <<AnonFuncs, Blocks, Params, debug, methods, heap, last>>

\* The body of a declared function is built, with or without debug info.
BuildFunction(fn, d) ==
    /\ Created
    /\ fn = "f"
    /\ ~Built(fn)
    /\ Blocks' = [Blocks EXCEPT ![fn] = BodyBlocks(fn)]
    /\ Params' = [Params EXCEPT ![fn] = BodyParams(fn)]
    /\ debug' = [debug EXCEPT ![fn] = d]
    /\ UNCHANGED <<packages, AnonFuncs, methods, heap, last>>

\* A function literal met while building parent: its function is appended
\* to parent.AnonFuncs and built in the parent's debug mode.
AddAnonFunc(parent, anon) ==
    /\ Created
    /\ parent \in AnonParents(anon)
    /\ Built(parent)
    /\ ~Placed(anon)
    /\ AnonFuncs' = [AnonFuncs EXCEPT ![parent] = Append(@, anon)]
    /\ Blocks' = [Blocks EXCEPT ![anon] = BodyBlocks(anon)]
    /\ Params' = [Params EXCEPT ![anon] = BodyParams(anon)]
    /\ debug' = [debug EXCEPT ![anon] = debug[parent]]
    /\ UNCHANGED <<packages, methods, heap, last>>

(***************************************************************************)
(* The caller: one query at a time.  A query may be repeated with the same *)
(* arguments before its result is dropped.                                 *)
(***************************************************************************)
Call(op, path, obj, fn, e, res) ==
    [op |-> op, path |-> path, obj |-> obj, fn |-> fn, e |-> e, res |-> res]

NoCall == Call("none", <<>>, "", "", NoExpr, Nil)

\* The arguments a call of op may take now: any of S when no query is in
\* progress, the previous one when op is being repeated.
Again(op, S, prev) ==
    IF last.op = "none" THEN S
    ELSE IF last.op = op THEN S \cap {prev} ELSE {}

\* The orders in which findNamedFunc's range over pkg.Members may run.
VisitOrders(pkg) == Orders(packages[pkg].Members)

CallEnclosingFunction ==
    \E path \in Again("EnclosingFunction", Paths, last.path),
       order \in VisitOrders("P") :
        /\ last' = Call("EnclosingFunction", path, "", "", NoExpr,
                        EnclosingFunction("P", path, order))
        /\ UNCHANGED <<irState, heap>>

CallHasEnclosingFunction ==
    \E path \in Again("HasEnclosingFunction", Paths, last.path),
       order \in VisitOrders("P") :
        /\ last' = Call("HasEnclosingFunction", path, "", "", NoExpr,
                        HasEnclosingFunction("P", path, order))
        /\ UNCHANGED <<irState, heap>>

CallValueForExpr ==
    \E f \in Again("ValueForExpr", {"init", "f", "f$1"}, last.fn),
       e \in Again("ValueForExpr", Exprs, last.e) :
        /\ last' = Call("ValueForExpr", <<>>, "", f, e, ValueForExpr(f, e))
        /\ UNCHANGED <<irState, heap>>

CallFuncValue ==
    \E obj \in Again("FuncValue", FuncObjs, last.obj) :
        /\ last' = Call("FuncValue", <<>>, obj, "", NoExpr, FuncValue(obj).res)
        /\ methods' = FuncValue(obj).methods
        /\ UNCHANGED <<packages, AnonFuncs, Blocks, Params, debug, heap>>

CallConstValue ==
    \E obj \in Again("ConstValue", ConstObjs, last.obj) :
        /\ ConstValue(obj).heap <= MaxAlloc
        /\ last' = Call("ConstValue", <<>>, obj, "", NoExpr, ConstValue(obj).res)
        /\ heap' = ConstValue(obj).heap
        /\ UNCHANGED irState

CallVarValue ==
    \E obj \in Again("VarValue", VarObjs, last.obj),
       ref \in Again("VarValue", Paths, last.path),
       order \in VisitOrders("P") :
        /\ last' = Call("VarValue", ref, obj, "", NoExpr,
                        VarValue(obj, "P", ref, order))
        /\ UNCHANGED <<irState, heap>>

\* The caller drops the result.
Return ==
    /\ last.op # "none"
    /\ last' = NoCall
    /\ UNCHANGED <<irState, heap>>

Init ==
    /\ packages = [p \in {"P"} |-> [Members |-> {}, values |-> <<>>]]
    /\ AnonFuncs = [fn \in Fn |-> <<>>]
    /\ Blocks = [fn \in Fn |-> <<>>]
    /\ Params = [fn \in Fn |-> <<>>]
    /\ debug = [fn \in Fn |-> FALSE]
    /\ methods = {}
    /\ heap = 0
    /\ last = NoCall

Builder ==
    \/ \E obj \in {"f", "g", "c"} : CreateMember(obj)
    \/ CreateMethod("T.init")
    \/ CreateType("T")
    \/ \E d \in BOOLEAN : BuildFunction("f", d)
    \/ \E parent \in Fn, anon \in {"f$1", "f$2"} : AddAnonFunc(parent, anon)

Query ==
    \/ CallEnclosingFunction
    \/ CallHasEnclosingFunction
    \/ CallValueForExpr
    \/ CallFuncValue
    \/ CallConstValue
    \/ CallVarValue

Next == Builder \/ Query \/ Return

Spec == Init /\ [][Next]_vars

(***************************************************************************)
(* Vocabulary of the properties.                                           *)
(***************************************************************************)
P == "P"

IsFunction(v) == v.kind = "Function"

\* The positions of the function literals on a path, outermost first.
LitsOf(path) ==
    LET n == Len(path)
        rev == [i \in 1..n |-> path[n + 1 - i]]
        lits == SelectSeq(rev, LAMBDA node : node.kind = "FuncLit")
    IN  [i \in 1..Len(lits) |-> lits[i].Pos]

\* The functions reached from fns by descending through the first k of the
\* literals: at each step an AnonFuncs entry at the literal's position.
RECURSIVE Descend(_, _, _)
Descend(fns, lits, k) ==
    IF k = 0 THEN fns
    ELSE {a \in Fn : \E p \in Descend(fns, lits, k - 1) :
                a \in Range(AnonFuncs[p]) /\ FnPos(a) = lits[k]}

\* Some literal of the path has no function where the descent from top
\* looks for it, after k - 1 literals were matched.
MissingAt(top, lits, k) ==
    /\ k \in 1..Len(lits)
    /\ Descend({top}, lits, k - 1) # {}
    /\ Descend({top}, lits, k) = {}

\* A call of op has just returned: `last` holds a new call record of op.
\* Query steps leave the IR as it is, so the IR in the step's first state is
\* the one the call ran on.
Returned(op) == last' # last /\ last'.op = op

\* The syntax-only classification of a path: "init", "named" or "none".
Classify(path) ==
    LET n == Len(path) IN
    IF n < 2 THEN "none"
    ELSE LET parent == path[n - 1] IN
         CASE parent.kind = "GenDecl" /\ parent.Tok = "var" /\ n >= 3 -> "init"
           [] parent.kind = "FuncDecl" /\ ~parent.Recv /\ parent.Name = "init" -> "init"
           [] parent.kind = "FuncDecl" -> "named"
           [] OTHER -> "none"

\* C1: whatever the package holds, a path for which HasEnclosingFunction
\* answers false makes EnclosingFunction return nil.
C1_NoEnclosingMeansNil ==
    [][(/\ Returned("EnclosingFunction")
        /\ \E o \in VisitOrders(P) :
              HasEnclosingFunction(P, last'.path, o) = BoolV(FALSE))
          => last'.res = Nil]_vars

C1_Witness ==
    /\ last.op = "EnclosingFunction"
    /\ last.res = Nil
    /\ LitsOf(last.path) # <<>>
    /\ Created
    /\ AnonFuncs["init"] # <<>>
    /\ \E o \in VisitOrders(P) : HasEnclosingFunction(P, last.path, o) = BoolV(FALSE)

\* C2: when the top-level function is resolved but some literal on the path
\* has no function in the AnonFuncs of the function reached so far,
\* EnclosingFunction returns nil, however many literals matched before.
C2_MissingLiteralMeansNil ==
    [][(/\ Returned("EnclosingFunction")
        /\ \E o \in VisitOrders(P) :
              LET top == findEnclosingPackageLevelFunction(P, last'.path, o) IN
              /\ IsFunction(top)
              /\ \E k \in 1..Len(LitsOf(last'.path)) :
                    MissingAt(top.name, LitsOf(last'.path), k))
          => last'.res = Nil]_vars

C2_Witness ==
    /\ last.op = "EnclosingFunction"
    /\ last.res = Nil
    /\ \E o \in VisitOrders(P) :
          LET top == findEnclosingPackageLevelFunction(P, last.path, o) IN
          IsFunction(top) /\ MissingAt(top.name, LitsOf(last.path), 2)

\* C3: a function returned by EnclosingFunction is the resolved top-level
\* function when the path has no literal, and otherwise is reached from it
\* by descending through all the literals, outermost first, and sits at the
\* position of the innermost one.
C3_InnermostFunction ==
    [][(Returned("EnclosingFunction") /\ IsFunction(last'.res)) =>
          LET f == last'.res
              lits == LitsOf(last'.path)
          IN  \E o \in VisitOrders(P) :
                LET top == findEnclosingPackageLevelFunction(P, last'.path, o) IN
                /\ IsFunction(top)
                /\ lits = <<>> => f = top
                /\ lits # <<>> =>
                      /\ f.name \in Descend({top.name}, lits, Len(lits))
                      /\ FnPos(f.name) = lits[Len(lits)]]_vars

C3_Witness ==
    /\ last.op = "EnclosingFunction"
    /\ last.res = FunctionV("f$2")
    /\ LitsOf(last.path) = <<21, 22>>
    /\ "f$2" \in Range(AnonFuncs["f$1"])

\* C4: HasEnclosingFunction answers true exactly when the classification of
\* the path is not "none", whatever members, methods and values the package
\* holds.
C4_SyntaxOnly ==
    [][Returned("HasEnclosingFunction")
          => last'.res = BoolV(Classify(last'.path) # "none")]_vars

\* A chain of at least two nodes, starting at an identifier for VarValue.
WellFormed(call) ==
    CASE call.op = "EnclosingFunction" -> Len(call.path) >= 2
      [] call.op = "VarValue" -> Len(call.path) >= 2 /\ call.path[1].kind = "Ident"
      [] OTHER -> call.op \in {"ValueForExpr", "FuncValue", "ConstValue"}

\* C5: on a well-formed chain, EnclosingFunction, ValueForExpr, FuncValue,
\* ConstValue and VarValue end with a value or nil and never with a fault,
\* whatever part of the package has been created and built.
C5_NeverFaults ==
    [][(last' # last /\ WellFormed(last')) => last'.res # Fault]_vars

\* C6: no query changes the program: packages, members, value tables,
\* AnonFuncs, function bodies and method tables are after a query what they
\* were before it.
C6_QueriesArePure ==
    [][(last' # last /\ last'.op # "none") => irState' = irState]_vars

\* The top-level functions from which f is reached through the literals.
TopsOf(f, lits) == {t \in Fn : f \in Descend({t}, lits, Len(lits))}

\* Some member of the package answers for a function declared at pos.
DeclaredAt(pos) ==
    \E m \in packages[P].Members :
        \/ MemberKind(m) = "Function" /\ FnPos(m) = pos
        \/ MemberKind(m) = "Type" /\ \E i \in DOMAIN MethodSet(m) :
                                         ObjPos(MethodSet(m)[i]) = pos

\* C7: the top-level function EnclosingFunction starts from follows the
\* classification table.  A var group with at least three nodes and a
\* receiver-less init declaration resolve to the package initializer; any
\* other function or method declaration, a method named init included,
\* resolves to the function declared at the declaration's name position;
\* everything else resolves to nothing.
C7_ClassificationTable ==
    [][Returned("EnclosingFunction") =>
          LET path == last'.path
              n == Len(path)
              r == last'.res
              lits == LitsOf(path)
              class == Classify(path)
          IN  /\ class = "none" => r = Nil
              /\ (class = "init" /\ lits = <<>>) => r = FunctionV("init")
              /\ (class = "init" /\ IsFunction(r)) => "init" \in TopsOf(r.name, lits)
              /\ (class = "named" /\ IsFunction(r)) =>
                    \E t \in TopsOf(r.name, lits) :
                        t # "init" /\ FnPos(t) = path[n - 1].Pos
              /\ (class = "named" /\ lits = <<>> /\ r = Nil) =>
                    ~DeclaredAt(path[n - 1].Pos)]_vars

C7_Witness ==
    /\ last.op = "EnclosingFunction"
    /\ Len(last.path) >= 2
    /\ last.path[Len(last.path) - 1] = FuncDecl(TRUE, "init", 13)
    /\ last.res = FunctionV("T.init")

\* Every package-level object of P has its member and its value.
FullyBuilt == Created

\* C8: in a fully built package, FuncValue on a package-level function and
\* VarValue on a package-level variable, with any identifier chain, return
\* the one entry of the object in the package's value table, and no entry
\* of the table ever changes: repeated calls return the identical value.
C8_CachedLookupsAreStable ==
    [][/\ (Returned("FuncValue") /\ FullyBuilt /\ last'.obj \in {"f", "T.init"})
            => (last'.res = packages[P].values[last'.obj]
                /\ last'.res = ValueOfObj(last'.obj))
       /\ (Returned("VarValue") /\ FullyBuilt /\ last'.obj = "g"
             /\ last'.path # <<>> /\ last'.path[1].kind = "Ident")
            => (last'.res = packages[P].values["g"]
                /\ last'.res = ValueOfObj("g"))
       /\ \A o \in DOMAIN packages[P].values :
             /\ o \in DOMAIN packages'[P].values
             /\ packages'[P].values[o] = packages[P].values[o]]_vars

C8_Witness ==
    /\ last.op = "VarValue"
    /\ last.obj = "g"
    /\ FullyBuilt
    /\ LitsOf(last.path) # <<>>
    /\ last.res = packages[P].values["g"]

C10_AbsencePropagates ==
    [][(/\ Returned("VarValue")
        /\ last'.path # <<>>
        /\ last'.path[1].kind = "Ident"
        /\ packageLevelValue(last'.obj) = Nil
        /\ \E o \in VisitOrders(P) : EnclosingFunction(P, last'.path, o) = Nil)
          => last'.res = Nil]_vars

C10_Witness ==
    /\ last.op = "VarValue"
    /\ last.obj = "x"
    /\ last.res = Nil
    /\ Built("f")
    /\ last.path # <<>>
    /\ last.path[1] = Ident(14)
    /\ LitsOf(last.path) # <<>>
    /\ \E o \in VisitOrders(P) : EnclosingFunction(P, last.path, o) = Nil

\* The expression node inside all of e's enclosing parentheses.
Stripped(e) == [e EXCEPT !.paren = 0]

\* The Debug References among f's instructions whose expression is the node d.
RefsTo(f, d) ==
    {instr \in UNION {Range(Blocks[f][b]) : b \in DOMAIN Blocks[f]} :
        instr.kind = "DebugRef" /\ instr.Expr = d}

\* C11: ValueForExpr(f, e) returns nil when f has no debug information,
\* whatever f's blocks contain.  When f has debug information, the result is
\* the value of a Debug Reference of f whose expression is the very node e
\* denotes once its enclosing parentheses are stripped, and nil when f has no
\* such reference; hence e in any number of parentheses gives the result e
\* gives.
C11_ValueForExprByStrippedIdentity ==
    [][Returned("ValueForExpr") =>
         LET f == last'.fn
             e == last'.e
             res == last'.res
         IN  /\ ~debug[f] => res = Nil
             /\ debug[f] /\ RefsTo(f, Stripped(e)) = {} => res = Nil
             /\ debug[f] /\ RefsTo(f, Stripped(e)) # {} =>
                   \E instr \in RefsTo(f, Stripped(e)) : res = instr.X
             /\ \A e2 \in Exprs :
                   e2.base = e.base => ValueForExpr(f, e2) = res]_vars

\* A doubly parenthesised expression was found in a function with debug
\* information.
C11_Witness ==
    /\ last.op = "ValueForExpr"
    /\ last.e.paren >= 2
    /\ debug[last.fn]
    /\ last.res # Nil

\* C12: while the builder only adds members, values and AnonFuncs entries,
\* a function returned by EnclosingFunction for a path is what every later
\* call with that path returns: the result of a repeated call changes only
\* from nil to a function.
C12_ResultIsMonotone ==
    [][(/\ last.op = "EnclosingFunction"
        /\ last'.op = "EnclosingFunction"
        /\ last'.path = last.path
        /\ last'.res # last.res
        /\ last.res # Fault
        /\ last'.res # Fault)
         => (last.res = Nil /\ IsFunction(last'.res))]_vars

\* A literal's function was returned from an AnonFuncs list that holds
\* another literal's function as well.
C12_Witness ==
    /\ last.op = "EnclosingFunction"
    /\ IsFunction(last.res)
    /\ \E p \in Fn :
          /\ last.res.name \in Range(AnonFuncs[p])
          /\ Len(AnonFuncs[p]) = 2
          /\ AnonFuncs[p][1] = last.res.name
====
